---- MODULE Spec2Model ----
(***************************************************************************)
(* Model of run/prepare_data.py: the feature-preparation script that reads *)
(* a table of accelerometer readings, normalises it, derives time-of-day   *)
(* features and writes one array file per feature and series.              *)
(*                                                                         *)
(* Three specifications are defined.                                       *)
(*   Spec        main() exactly as the file is written.  Lines 93-94 (the  *)
(*               definition of deg_to_rad) are comments, so the name is    *)
(*               unbound when line 166 calls it.                           *)
(*   SpecDefined main() with the helper of lines 93-94 bound, i.e. the     *)
(*               pipeline of lines 163-190 as it is written.               *)
(*   SpecBucket  add_feature's time-bucket lookup applied to every minute  *)
(*               of the day.                                               *)
(* Floating-point values are kept in fixed point (see each operator).      *)
(***************************************************************************)
EXTENDS Integers, Sequences, FiniteSets, TLC

VARIABLES
    phase,          \* cfg.phase
    table,          \* rows of the input parquet file, in file order
    fs,             \* directory tree under cfg.dir.processed_dir, by phase
    pc,             \* position of main()
    err,            \* exception that ended the run, "none" while it runs
    series_df,      \* main's series_df (collected, then sorted)
    remaining,      \* series ids the group_by iterator has not yielded yet
    series_id,      \* loop variable series_id
    group_df,       \* the group as yielded by group_by (add_feature's argument)
    this_series_df, \* loop variable this_series_df after add_feature
    col,            \* index into columns inside save_each_series
    run,            \* number of the current invocation of main
    fsStart,        \* fs when the current invocation started
    prev,           \* how the previous invocation ended
    processed,      \* series ids add_feature was called for in this run
    writes,         \* np.save calls of this run, in order
    probe           \* SpecBucket: the timestamp probed and add_feature's lookup

vars == <<phase, table, fs, pc, err, series_df, remaining, series_id, group_df,
          this_series_df, col, run, fsStart, prev, processed, writes, probe>>

(***************************************************************************)
(* Bounds of the model.                                                    *)
(***************************************************************************)
MaxRows == 2
MaxRuns == 2

(***************************************************************************)
(* Module-level constants of prepare_data.py.                              *)
(***************************************************************************)
FEATURE_NAMES ==
    <<"anglez", "enmo", "hour_sin", "hour_cos",
      "signal_awake", "signal_onset", "signal_poly">>

\* Means and standard deviations in millionths.
ANGLEZ_MEAN == -8810476
ANGLEZ_STD == 35521877
ENMO_MEAN == 41315
ENMO_STD == 101829

\* coefficients[0..3] in millionths.
coefficients == <<749834, -291203, 32550, -866>>

\* poly_fit(time) for time = t10 / 10, in millionths.
poly_fit(t10) ==
    coefficients[1]
    + (coefficients[2] * t10) \div 10
    + (coefficients[3] * t10 * t10) \div 100
    + (((coefficients[4] * t10) \div 10) * t10 * t10) \div 100

\* calc_mixture_gaussian(time, **params) for time = t10 / 10.  The density is
\* kept as the term that names the call; params is the name of the dict.
calc_mixture_gaussian(t10, params) == <<"calc_mixture_gaussian", params, t10>>

\* np.arange(0, 240)
new_time_units == 0..239

signal_awake_dict ==
    [hour \in new_time_units |-> calc_mixture_gaussian(hour, "awake_features")]
signal_onset_dict ==
    [hour \in new_time_units |-> calc_mixture_gaussian(hour, "onset_features")]
signal_poly_dict == [hour \in new_time_units |-> poly_fit(hour)]

(***************************************************************************)
(* Values of the input.                                                    *)
(***************************************************************************)
Phases == {"train", "test", "dev", "bogus"}
SeriesIds == {"A", "B"}

\* Order of the series_id strings under sort.
SeriesRank(s) == IF s = "A" THEN 1 ELSE IF s = "B" THEN 2 ELSE 3

\* A timestamp string "YYYY-MM-DDTHH:MM:SS+HHMM" is the record of its fields
\* (tz is the offset in minutes); ok is FALSE for a string that does not
\* match the format.
T0006 == [ok |-> TRUE, day |-> 1, hh |-> 0, mm |-> 6, tz |-> 0]
T0254p3 == [ok |-> TRUE, day |-> 1, hh |-> 2, mm |-> 54, tz |-> 180]
TBad == [ok |-> FALSE, day |-> 0, hh |-> 0, mm |-> 0, tz |-> 0]
RawTimestamps == {T0006, T0254p3, TBad}

\* anglez (degrees) and enmo, in millionths.
Readings ==
    { [anglez |-> -8810476, enmo |-> 41315],
      [anglez |-> 26711401, enmo |-> 143144] }

RawRows ==
    { [series_id |-> s, timestamp |-> t, anglez |-> r.anglez, enmo |-> r.enmo] :
        s \in SeriesIds, t \in RawTimestamps, r \in Readings }

Tables == UNION { [1..n -> RawRows] : n \in 0..MaxRows }

(***************************************************************************)
(* The file system under cfg.dir.processed_dir.  A phase directory is      *)
(* [exists, dirs]; dirs maps a series directory to its files, and a file   *)
(* name (without ".npy") to the array saved in it.                         *)
(***************************************************************************)
EmptyMap == [x \in {} |-> x]
Absent == [exists |-> FALSE, dirs |-> EmptyMap]

\* What an earlier run with another input and another feature list left.
StaleDir ==
    [exists |-> TRUE,
     dirs |-> ("Z" :> ("anglez" :> <<7>>)) @@ ("A" :> ("step" :> <<7>>))]
StalePhases == {"train", "bogus"}

Put(f, k, v) == [x \in (DOMAIN f) \cup {k} |-> IF x = k THEN v ELSE f[x]]

\* Path(cfg.dir.processed_dir) / cfg.phase
ProcessedDir(p) == p

\* shutil.rmtree(d)
ShutilRmtreeKeep(fsys, d) == fsys
ShutilRmtree(fsys, d) == [fsys EXCEPT ![d] = Absent]

\* output_dir.mkdir(parents=True, exist_ok=True) for output_dir = d / sid
Mkdir(fsys, d, sid) ==
    [fsys EXCEPT ![d] =
        [exists |-> TRUE,
         dirs |-> IF sid \in DOMAIN fsys[d].dirs
                  THEN fsys[d].dirs
                  ELSE Put(fsys[d].dirs, sid, EmptyMap)]]

\* np.save(d / sid / f"{name}.npy", x)
NpSave(fsys, d, sid, name, x) ==
    [fsys EXCEPT ![d].dirs[sid] = Put(fsys[d].dirs[sid], name, x)]

(***************************************************************************)
(* Preprocessing, lines 163-181.  A parsed timestamp is the UTC instant in *)
(* minutes.                                                                *)
(***************************************************************************)
\* pl.col("timestamp").str.to_datetime("%Y-%m-%dT%H:%M:%S%z")
to_datetime(ts) == ts.day * 1440 + ts.hh * 60 + ts.mm - ts.tz

\* .dt.hour() and .dt.minute()
DtHour(t) == (t % 1440) \div 60
DtMinute(t) == t % 60

\* (pl.col(c) - MEAN) / STD, in thousandths
ZScore(x, mean, std) == (x - mean) \div (std \div 1000)

\* np.pi / 180 * x (lines 93-94), in thousandths
deg_to_rad(x) == ((x \div 1000) * 17453) \div 1000000

\* with_columns(...).select(...) on one row
PreprocessRow(r) ==
    [series_id |-> r.series_id,
     anglez |-> ZScore(r.anglez, ANGLEZ_MEAN, ANGLEZ_STD),
     enmo |-> ZScore(r.enmo, ENMO_MEAN, ENMO_STD),
     timestamp |-> to_datetime(r.timestamp),
     anglez_rad |-> deg_to_rad(r.anglez)]

\* to_datetime is strict: one string off the format fails the collect.
CollectOk(tbl) == \A i \in 1..Len(tbl) : tbl[i].timestamp.ok

CollectRows(tbl) == [i \in 1..Len(tbl) |-> PreprocessRow(tbl[i])]

\* A lenient collect that drops the rows whose timestamp does not parse.
CollectRowsLenient(tbl) ==
    LET kept == SelectSeq(tbl, LAMBDA r : r.timestamp.ok)
    IN  [i \in 1..Len(kept) |-> PreprocessRow(kept[i])]

\* .sort(by=["series_id", "timestamp"]): a before b in the sort order
KeyLessSeriesOnly(a, b) == SeriesRank(a.series_id) < SeriesRank(b.series_id)
KeyLess(a, b) ==
    \/ SeriesRank(a.series_id) < SeriesRank(b.series_id)
    \/ /\ a.series_id = b.series_id
       /\ a.timestamp < b.timestamp

RECURSIVE InsertRow(_, _)
InsertRow(s, r) ==
    IF s = <<>> THEN <<r>>
    ELSE IF KeyLess(r, Head(s)) THEN <<r>> \o s
    ELSE <<Head(s)>> \o InsertRow(Tail(s), r)

\* The sort keeps rows of equal key in the order it received them.
RECURSIVE SortRows(_)
SortRows(df) ==
    IF Len(df) = 0 THEN <<>>
    ELSE InsertRow(SortRows(SubSeq(df, 1, Len(df) - 1)), df[Len(df)])

\* series_df.group_by("series_id"): the keys, and the rows of one key
GroupIds(df) == { df[i].series_id : i \in 1..Len(df) }
GroupOf(df, sid) == SelectSeq(df, LAMBDA r : r.series_id = sid)

(***************************************************************************)
(* add_feature, lines 85-111.                                              *)
(***************************************************************************)
\* sin(2*pi*k/24) in thousandths, k = 0..23
SIN24 ==
    <<0, 259, 500, 707, 866, 966, 1000, 966, 866, 707, 500, 259,
      0, -259, -500, -707, -866, -966, -1000, -966, -866, -707, -500, -259>>

\* to_coord(x, max_, name) for a max_ that divides 24
to_coord(x, max_) ==
    LET k == ((x % max_) * 24) \div max_
    IN  [sin |-> SIN24[k + 1], cos |-> SIN24[((k + 6) % 24) + 1]]

\* hour_plus_minute, line 104
hour_plus_minute_by5(t) == DtHour(t) * 10 + DtMinute(t) \div 5
hour_plus_minute(t) == DtHour(t) * 10 + DtMinute(t) \div 6

\* One row of add_feature's result.  Lines 106-108 are taken as the per-row
\* dict lookup they are written to be (key hour_plus_minute, one value per row).
FeatureRow(r) ==
    LET b == hour_plus_minute(r.timestamp)
        hour == to_coord(DtHour(r.timestamp), 24)
    IN  [series_id |-> r.series_id,
         anglez |-> r.anglez,
         enmo |-> r.enmo,
         hour_sin |-> hour.sin,
         hour_cos |-> hour.cos,
         signal_awake |-> signal_awake_dict[b],
         signal_onset |-> signal_onset_dict[b],
         signal_poly |-> signal_poly_dict[b]]

\* No lookup of add_feature misses its dict.
AddFeatureOk(df) ==
    \A i \in 1..Len(df) :
        LET b == hour_plus_minute(df[i].timestamp)
        IN  /\ b \in DOMAIN signal_awake_dict
            /\ b \in DOMAIN signal_onset_dict
            /\ b \in DOMAIN signal_poly_dict

add_feature_reversed(df) ==
    [i \in 1..Len(df) |-> FeatureRow(df[Len(df) + 1 - i])]
add_feature(df) == [i \in 1..Len(df) |-> FeatureRow(df[i])]

\* this_series_df.get_column(col_name).to_numpy()
get_column(df, name) == [i \in 1..Len(df) |-> df[i][name]]

\* processed_dir / series_id, line 189
SeriesDirShared(sid) == "A"
SeriesDir(sid) == sid

Columns == { FEATURE_NAMES[i] : i \in 1..Len(FEATURE_NAMES) }

\* What a completed run leaves in the phase directory for the table tbl,
\* with the groups taken in any order.
PipelineOutput(tbl) ==
    LET df == SortRows(CollectRows(tbl))
    IN  [sid \in GroupIds(df) |->
            [name \in Columns |->
                get_column(add_feature(GroupOf(df, sid)), name)]]

(***************************************************************************)
(* main, lines 139-190.                                                    *)
(***************************************************************************)
NoProbe == [ts |-> -1, done |-> FALSE, bucket |-> -1, hit |-> FALSE]

InitFs == [p \in Phases |-> IF p \in StalePhases THEN StaleDir ELSE Absent]

Init ==
    /\ phase \in Phases
    /\ table \in Tables
    /\ fs = InitFs
    /\ pc = "start"
    /\ err = "none"
    /\ series_df = <<>>
    /\ remaining = {}
    /\ series_id = "none"
    /\ group_df = <<>>
    /\ this_series_df = <<>>
    /\ col = 0
    /\ run = 1
    /\ fsStart = InitFs
    /\ prev = [pc |-> "none", err |-> "none"]
    /\ processed = <<>>
    /\ writes = <<>>
    /\ probe = NoProbe

\* Lines 140-145: remove the phase directory when it exists.
RmTree ==
    /\ pc = "start"
    /\ fs' = IF fs[ProcessedDir(phase)].exists
             THEN ShutilRmtree(fs, ProcessedDir(phase))
             ELSE fs
    /\ pc' = "load"
    /\ UNCHANGED <<phase, table, err, series_df, remaining, series_id, group_df,
                   this_series_df, col, run, fsStart, prev, processed, writes, probe>>

\* Lines 149-158: the lazy scan of the phase's parquet file.
ScanParquet ==
    /\ pc = "load"
    /\ phase \in {"train", "test"} \/ phase = "dev"
    /\ pc' = "preprocess"
    /\ UNCHANGED <<phase, table, fs, err, series_df, remaining, series_id,
                   group_df, this_series_df, col, run, fsStart, prev, processed,
                   writes, probe>>

\* Lines 159-160: raise ValueError(f"Invalid phase: {cfg.phase}")
RaiseInvalidPhase ==
    /\ pc = "load"
    /\ ~(phase \in {"train", "test"} \/ phase = "dev")
    /\ pc' = "failed"
    /\ err' = "ValueError"
    /\ UNCHANGED <<phase, table, fs, series_df, remaining, series_id, group_df,
                   this_series_df, col, run, fsStart, prev, processed, writes, probe>>

\* Line 166 as the file is written: deg_to_rad is not bound, so building the
\* arguments of with_columns raises NameError before anything is collected.
RaiseNameError ==
    /\ pc = "preprocess"
    /\ pc' = "failed"
    /\ err' = "NameError"
    /\ UNCHANGED <<phase, table, fs, series_df, remaining, series_id, group_df,
                   this_series_df, col, run, fsStart, prev, processed, writes, probe>>

\* Lines 163-179 with deg_to_rad bound: with_columns, select, collect.
CollectLenient ==
    /\ pc = "preprocess"
    /\ series_df' = CollectRowsLenient(table)
    /\ pc' = "sort"
    /\ err' = err
    /\ UNCHANGED <<phase, table, fs, remaining, series_id, group_df,
                   this_series_df, col, run, fsStart, prev, processed, writes, probe>>
Collect ==
    /\ pc = "preprocess"
    /\ IF CollectOk(table)
       THEN /\ series_df' = CollectRows(table)
            /\ pc' = "sort"
            /\ err' = err
       ELSE /\ series_df' = series_df
            /\ pc' = "failed"
            /\ err' = "ComputeError"
    /\ UNCHANGED <<phase, table, fs, remaining, series_id, group_df,
                   this_series_df, col, run, fsStart, prev, processed, writes, probe>>

\* A sort that leaves rows of equal key in any order.
IsKeySorted(df) ==
    \A i \in 1..(Len(df) - 1) : ~KeyLess(df[i + 1], df[i])
Permutations1(n) == { f \in [1..n -> 1..n] : \A i, j \in 1..n : f[i] = f[j] => i = j }
SortAnyTieOrder ==
    /\ pc = "sort"
    /\ \E f \in Permutations1(Len(series_df)) :
         LET df == [i \in 1..Len(series_df) |-> series_df[f[i]]]
         IN  /\ IsKeySorted(df)
             /\ series_df' = df
    /\ remaining' = GroupIds(series_df)
    /\ pc' = "loop"
    /\ UNCHANGED <<phase, table, fs, err, series_id, group_df, this_series_df,
                   col, run, fsStart, prev, processed, writes, probe>>

\* Lines 180-184: sort, n_unique, and the group_by the loop iterates.
Sort ==
    /\ pc = "sort"
    /\ series_df' = SortRows(series_df)
    /\ remaining' = GroupIds(series_df)
    /\ pc' = "loop"
    /\ UNCHANGED <<phase, table, fs, err, series_id, group_df, this_series_df,
                   col, run, fsStart, prev, processed, writes, probe>>

\* Line 184: the iterator yields the next group; group_by does not keep the
\* order of the keys, so any group not yet yielded may come next.
NextGroup ==
    /\ pc = "loop"
    /\ \E sid \in remaining :
         /\ series_id' = sid
         /\ group_df' = GroupOf(series_df, sid)
         /\ remaining' = remaining \ {sid}
    /\ pc' = "add_feature"
    /\ UNCHANGED <<phase, table, fs, err, series_df, this_series_df, col, run,
                   fsStart, prev, processed, writes, probe>>

\* Line 186: this_series_df = add_feature(this_series_df)
AddFeature ==
    /\ pc = "add_feature"
    /\ processed' = Append(processed, series_id)
    /\ IF AddFeatureOk(group_df)
       THEN /\ this_series_df' = add_feature(group_df)
            /\ pc' = "mkdir"
            /\ err' = err
       ELSE /\ this_series_df' = this_series_df
            /\ pc' = "failed"
            /\ err' = "KeyError"
    /\ UNCHANGED <<phase, table, fs, series_df, remaining, series_id, group_df,
                   col, run, fsStart, prev, writes, probe>>

\* Lines 189 and 131: series_dir, and save_each_series makes the directory.
MkdirSeries ==
    /\ pc = "mkdir"
    /\ fs' = Mkdir(fs, ProcessedDir(phase), SeriesDir(series_id))
    /\ col' = 1
    /\ pc' = "save"
    /\ UNCHANGED <<phase, table, err, series_df, remaining, series_id, group_df,
                   this_series_df, run, fsStart, prev, processed, writes, probe>>

\* Lines 133-135: one turn of the loop over columns.
SaveColumn ==
    /\ pc = "save"
    /\ fs' = NpSave(fs, ProcessedDir(phase), SeriesDir(series_id),
                    FEATURE_NAMES[col],
                    get_column(this_series_df, FEATURE_NAMES[col]))
    /\ writes' = Append(writes, [by |-> series_id,
                                 dir |-> SeriesDir(series_id),
                                 file |-> FEATURE_NAMES[col]])
    /\ col' = col + 1
    /\ pc' = IF col = Len(FEATURE_NAMES) THEN "loop" ELSE "save"
    /\ UNCHANGED <<phase, table, err, series_df, remaining, series_id, group_df,
                   this_series_df, run, fsStart, prev, processed,
                   probe>>

\* The loop of line 184 ends; main returns.
LoopExit ==
    /\ pc = "loop"
    /\ remaining = {}
    /\ pc' = "done"
    /\ UNCHANGED <<phase, table, fs, err, series_df, remaining, series_id,
                   group_df, this_series_df, col, run, fsStart, prev, processed,
                   writes, probe>>

\* mkdir or np.save raises OSError; nothing catches it, main ends.  A variant
\* that removes the directory of the failing series before it ends.
RaiseIOErrorRollback ==
    /\ pc \in {"mkdir", "save"}
    /\ pc' = "failed"
    /\ err' = "OSError"
    /\ fs' = [fs EXCEPT ![ProcessedDir(phase)].dirs =
                [s \in (DOMAIN @) \ {SeriesDir(series_id)} |-> @[s]]]
    /\ UNCHANGED <<phase, table, series_df, remaining, series_id, group_df,
                   this_series_df, col, run, fsStart, prev, processed, writes,
                   probe>>
RaiseIOError ==
    /\ pc \in {"mkdir", "save"}
    /\ pc' = "failed"
    /\ err' = "OSError"
    /\ fs' = fs
    /\ UNCHANGED <<phase, table, series_df, remaining, series_id, group_df,
                   this_series_df, col, run, fsStart, prev, processed, writes,
                   probe>>

\* main is invoked again with the same configuration and the same input,
\* after a run that ended without an I/O error.
Rerun ==
    /\ pc \in {"done", "failed"}
    /\ err # "OSError"
    /\ run < MaxRuns
    /\ run' = run + 1
    /\ prev' = [pc |-> pc, err |-> err]
    /\ fsStart' = fs
    /\ pc' = "start"
    /\ err' = "none"
    /\ series_df' = <<>>
    /\ remaining' = {}
    /\ series_id' = "none"
    /\ group_df' = <<>>
    /\ this_series_df' = <<>>
    /\ col' = 0
    /\ processed' = <<>>
    /\ writes' = <<>>
    /\ UNCHANGED <<phase, table, fs, probe>>

Next ==
    \/ RmTree
    \/ ScanParquet
    \/ RaiseInvalidPhase
    \/ RaiseNameError
    \/ Rerun

Spec == Init /\ [][Next]_vars

NextDefined ==
    \/ RmTree
    \/ ScanParquet
    \/ RaiseInvalidPhase
    \/ Collect
    \/ Sort
    \/ NextGroup
    \/ AddFeature
    \/ MkdirSeries
    \/ SaveColumn
    \/ LoopExit
    \/ RaiseIOError
    \/ Rerun

SpecDefined == Init /\ [][NextDefined]_vars

(***************************************************************************)
(* add_feature's lookup on one timestamp: every minute of two days.        *)
(***************************************************************************)
ProbeInstants == { d * 1440 + h * 60 + m : d \in 0..1, h \in 0..23, m \in 0..59 }

ProbeRow(t) ==
    [series_id |-> "A", anglez |-> 0, enmo |-> 0, timestamp |-> t,
     anglez_rad |-> 0]

InitBucket ==
    /\ phase = "train"
    /\ table = <<>>
    /\ fs = InitFs
    /\ pc = "add_feature"
    /\ err = "none"
    /\ series_df = <<>>
    /\ remaining = {}
    /\ series_id = "A"
    /\ group_df \in { <<ProbeRow(t)>> : t \in ProbeInstants }
    /\ this_series_df = <<>>
    /\ col = 0
    /\ run = 1
    /\ fsStart = InitFs
    /\ prev = [pc |-> "none", err |-> "none"]
    /\ processed = <<>>
    /\ writes = <<>>
    /\ probe = NoProbe

\* Lines 104-109 on the one-row frame group_df.
ProbeAddFeature ==
    /\ pc = "add_feature"
    /\ ~probe.done
    /\ probe' = [ts |-> group_df[1].timestamp,
                 done |-> TRUE,
                 bucket |-> hour_plus_minute(group_df[1].timestamp),
                 hit |-> AddFeatureOk(group_df)]
    /\ this_series_df' = IF AddFeatureOk(group_df)
                         THEN add_feature(group_df)
                         ELSE this_series_df
    /\ pc' = IF AddFeatureOk(group_df) THEN "mkdir" ELSE "failed"
    /\ UNCHANGED <<phase, table, fs, err, series_df, remaining, series_id,
                   group_df, col, run, fsStart, prev, processed, writes>>

NextBucket == ProbeAddFeature

SpecBucket == InitBucket /\ [][NextBucket]_vars

(***************************************************************************)
(* Properties.                                                             *)
(***************************************************************************)
ValidPhase == phase \in {"train", "test", "dev"}
PhaseDir == fs[ProcessedDir(phase)]
Count(seq, x) == Cardinality({ i \in 1..Len(seq) : seq[i] = x })
RowsOf(tbl, sid) == SelectSeq(tbl, LAMBDA r : r.series_id = sid)
TableIds == { table[i].series_id : i \in 1..Len(table) }
PermutationsOf(tbl) ==
    { [i \in 1..Len(tbl) |-> tbl[f[i]]] : f \in Permutations1(Len(tbl)) }

\* C1: a run with a phase other than train, test or dev never changes the
\* file system: at every point of the run it is as it was when the run began.
C1_InvalidPhaseTouchesNothing ==
    ~ValidPhase => fs = fsStart

\* C2: a run with a valid phase and well-formed input ends completed, and
\* then every series of the input has its directory with exactly the 7
\* feature files, each as long as the series has rows.
C2_ValidRunCompletesWithAllFiles ==
    (pc \in {"done", "failed"} /\ ValidPhase /\ CollectOk(table)) =>
        /\ pc = "done"
        /\ \A sid \in TableIds :
             /\ sid \in DOMAIN PhaseDir.dirs
             /\ DOMAIN PhaseDir.dirs[sid] = Columns
             /\ \A name \in Columns :
                  Len(PhaseDir.dirs[sid][name]) = Len(RowsOf(table, sid))

NoConflictingTies(tbl) ==
    \A i, j \in 1..Len(tbl) :
        ( /\ tbl[i].series_id = tbl[j].series_id
          /\ tbl[i].timestamp.ok
          /\ tbl[j].timestamp.ok
          /\ to_datetime(tbl[i].timestamp) = to_datetime(tbl[j].timestamp) )
        => (tbl[i].anglez = tbl[j].anglez /\ tbl[i].enmo = tbl[j].enmo)

C7_BucketAlwaysInDomain ==
    /\ DOMAIN signal_awake_dict = 0..239
    /\ DOMAIN signal_onset_dict = 0..239
    /\ DOMAIN signal_poly_dict = 0..239
    /\ probe.done =>
         /\ probe.bucket \in 0..239
         /\ probe.hit
         /\ pc = "mkdir"

\* C7 witness: the lookup for 23:59, the last bucket.
C7_Witness ==
    /\ probe.done
    /\ DtHour(probe.ts) = 23
    /\ DtMinute(probe.ts) = 59
    /\ probe.bucket = 239
    /\ probe.hit

====
